---- MODULE Spec2Model ----
(***************************************************************************)
(* The View state machine of nutmeg (src/src/lib.rs): the display state,   *)
(* the repaint decision (rate limit, print holdoff, incomplete line,       *)
(* suspension, identical-output suppression), printing of messages and     *)
(* teardown.                                                               *)
(*                                                                         *)
(* Strings are sequences of tokens: a printable character, the line        *)
(* terminator "\n", or one ANSI escape sequence. The destination stream    *)
(* `out` is everything write_output has emitted, in order.                 *)
(***************************************************************************)
EXTENDS Integers, Sequences, FiniteSets, TLC

\* ------------------------------------------------------------------ bounds

\* Clock values (real and fake) range over 0..MaxTime; update_interval and
\* print_holdoff are either zero or MaxTime.
MaxTime == 1
\* Number of View calls (update, message, hide, suspend, resume) in a run.
MaxOps == 3

\* ------------------------------------------------------------ ansi.rs

MOVE_TO_START_OF_LINE == "ESC[1G"
DISABLE_LINE_WRAP == "ESC[?7l"
ENABLE_LINE_WRAP == "ESC[?7h"
CLEAR_TO_END_OF_SCREEN == "ESC[0J"
NL == "\n"

\* format!("\x1b[{n}F"): one token per value of n.
MoveUp(n) == "ESC[" \o ToString(n) \o "F"

up_n_lines_and_home(n) ==
    IF n > 0 THEN <<MoveUp(n)>> ELSE <<MOVE_TO_START_OF_LINE>>

\* ------------------------------------------------------- environment inputs

\* Models are strings rendered through the blanket impl of Model for Display,
\* wrapped with the render and update counters of the tests' models.
Texts == { <<"a", NL>>, <<"b", NL, NL>> }

\* Messages given to View::message / io::Write::write.
Messages == { <<>>, <<"m">>, <<"m", NL>> }

\* Final messages a model may return from Model::final_message.
FinalMessages == { <<>>, <<"f">> }

Destinations == {"Stdout", "Stderr", "Capture"}

\* Option<T> is a sequence of length 0 (None) or 1 (Some).
None == <<>>
Some(x) == <<x>>

\* What the width query can return for a destination.
Widths(destination) ==
    IF destination = "Capture" THEN { Some(80) } ELSE { None, Some(80) }

\* ------------------------------------------------------------------ state

VARIABLES
    inner,        \* Mutex<Option<InnerView>>: None once the View is consumed
    out,          \* bytes emitted to the destination so far
    real_clock,   \* Instant::now()
    dropped,      \* the View value has been dropped
    panicked,     \* an assertion failed
    returned,     \* the model returned by finish / abandon, if any
    last,         \* the last call: its name, arguments, return value, the
                  \* bytes it emitted and the width it was given
    nops,         \* number of View calls made
    drawn_at_suspend, \* the bar was drawn when the view was suspended, and
                  \* nothing has been written since
    lock,         \* the Mutex of the View: the thread that holds it, if any
    threads,      \* for each thread sharing the View, where it is in its
                  \* call and the locals of that call
    hist          \* the calls that took the lock, in the order they took it

vars == <<inner, out, real_clock, dropped, panicked, returned, last, nops,
          drawn_at_suspend, lock, threads, hist>>

\* Number of threads that share the View through an Arc.
NThreads == 2

Threads == 1..NThreads

\* A thread that is not inside a call on the View.
IdleThread ==
    [pc |-> "idle", op |-> "", seen |-> None, buf |-> <<>>,
     state |-> None, group |-> 0, n_updates |-> 0]

\* No thread is inside a call: the lock is free.
ThreadsIdle ==
    /\ lock = None
    /\ threads = [t \in Threads |-> IdleThread]
    /\ hist = <<>>

\* State::None
StateNone == [tag |-> "None"]
\* State::ProgressDrawn
ProgressDrawn(t, y, s) ==
    [tag |-> "ProgressDrawn", last_drawn_time |-> t, cursor_y |-> y,
     last_drawn_string |-> s]
\* State::Printed
Printed(t) == [tag |-> "Printed", last_printed |-> t]
\* State::IncompleteLine
IncompleteLine == [tag |-> "IncompleteLine"]

\* Elapsed that takes the distance between the two instants.
Elapsed_Absolute(now, earlier) ==
    IF now >= earlier THEN now - earlier ELSE earlier - now

\* Instant - Instant: the elapsed time, zero if `earlier` is the later one.
Elapsed(now, earlier) == IF now >= earlier THEN now - earlier ELSE 0

\* clock that reads the system clock whatever the options say.
clock_AlwaysReal(v, real) == real

\* InnerView::clock
clock(v, real) == IF v.options.fake_clock THEN v.fake_clock ELSE real

\* impl Model for T: Display: render is to_string; the tests' models count
\* the calls of render in draw_count.
render(model) ==
    [model |-> [model EXCEPT !.draw_count = @ + 1], rendered |-> model.text]

\* InnerView::write_output: an InnerView paired with its destination stream.
write_output(c, buf) == [c EXCEPT !.out = @ \o buf]

\* StripNewline that removes every trailing line terminator.
RECURSIVE StripNewline_All(_)
StripNewline_All(rendered) ==
    IF Len(rendered) > 0 /\ rendered[Len(rendered)] = NL
    THEN StripNewline_All(SubSeq(rendered, 1, Len(rendered) - 1))
    ELSE rendered

\* StripNewline that removes up to two trailing line terminators.
StripNewline_Two(rendered) ==
    LET n == Len(rendered)
    IN IF n > 1 /\ rendered[n] = NL /\ rendered[n - 1] = NL
       THEN SubSeq(rendered, 1, n - 2)
       ELSE IF n > 0 /\ rendered[n] = NL
       THEN SubSeq(rendered, 1, n - 1)
       ELSE rendered

\* rendered.ends_with('\n') => rendered.pop()
StripNewline(rendered) ==
    IF Len(rendered) > 0 /\ rendered[Len(rendered)] = NL
    THEN SubSeq(rendered, 1, Len(rendered) - 1)
    ELSE rendered

\* CountNewlines that counts the lines of the text.
CountNewlines_Lines(s) == Cardinality({i \in 1..Len(s) : s[i] = NL}) + 1

\* rendered.as_bytes().iter().filter(|b| **b == b'\n').count()
CountNewlines(s) == Cardinality({i \in 1..Len(s) : s[i] = NL})

\* TooSoon without the rate limit of a drawn bar.
TooSoon_NoRateLimit(c, now) ==
    CASE c.v.state.tag = "IncompleteLine" -> TRUE
      [] c.v.state.tag = "None" -> FALSE
      [] c.v.state.tag = "Printed" ->
            Elapsed(now, c.v.state.last_printed) < c.v.options.print_holdoff
      [] c.v.state.tag = "ProgressDrawn" -> FALSE

\* TooSoon with the holdoff after a print measured by update_interval.
TooSoon_HoldoffIsInterval(c, now) ==
    CASE c.v.state.tag = "IncompleteLine" -> TRUE
      [] c.v.state.tag = "None" -> FALSE
      [] c.v.state.tag = "Printed" ->
            Elapsed(now, c.v.state.last_printed) < c.v.options.update_interval
      [] c.v.state.tag = "ProgressDrawn" ->
            Elapsed(now, c.v.state.last_drawn_time) < c.v.options.update_interval

\* The early returns of paint_progress that depend on the display state.
TooSoon(c, now) ==
    CASE c.v.state.tag = "IncompleteLine" -> TRUE
      [] c.v.state.tag = "None" -> FALSE
      [] c.v.state.tag = "Printed" ->
            Elapsed(now, c.v.state.last_printed) < c.v.options.print_holdoff
      [] c.v.state.tag = "ProgressDrawn" ->
            Elapsed(now, c.v.state.last_drawn_time) < c.v.options.update_interval

\* SameAsDrawn with the comparison left out.
SameAsDrawn_Never(state, rendered) == FALSE

\* Identical output: the bar is drawn and shows the same string.
SameAsDrawn(state, rendered) ==
    state.tag = "ProgressDrawn" /\ state.last_drawn_string = rendered

\* PaintBuf that moves to the start of the line before a first paint too.
PaintBuf_AlwaysHome(state, rendered) ==
    (IF state.tag = "ProgressDrawn"
     THEN up_n_lines_and_home(state.cursor_y)
     ELSE <<MOVE_TO_START_OF_LINE>>)
    \o <<DISABLE_LINE_WRAP, CLEAR_TO_END_OF_SCREEN>> \o rendered

\* PaintBuf that enables line wrap again after the text.
PaintBuf_EnableWrap(state, rendered) ==
    (IF state.tag = "ProgressDrawn"
     THEN up_n_lines_and_home(state.cursor_y) ELSE <<>>)
    \o <<DISABLE_LINE_WRAP, CLEAR_TO_END_OF_SCREEN>> \o rendered
    \o <<ENABLE_LINE_WRAP>>

\* The bytes of one paint.
PaintBuf(state, rendered) ==
    (IF state.tag = "ProgressDrawn"
     THEN up_n_lines_and_home(state.cursor_y) ELSE <<>>)
    \o <<DISABLE_LINE_WRAP, CLEAR_TO_END_OF_SCREEN>> \o rendered

\* paint that keeps the time of the previous paint.
paint_KeepsTime(c, now, rendered) ==
    [write_output(c, PaintBuf(c.v.state, rendered))
       EXCEPT !.v.state =
          ProgressDrawn(IF c.v.state.tag = "ProgressDrawn"
                        THEN c.v.state.last_drawn_time ELSE now,
                        CountNewlines(rendered), rendered)]

\* The end of paint_progress: emit the paint and record it.
paint(c, now, rendered) ==
    [write_output(c, PaintBuf(c.v.state, rendered))
       EXCEPT !.v.state = ProgressDrawn(now, CountNewlines(rendered), rendered)]

\* paint_progress that takes a suppressed repaint for a paint and restarts
\* the interval.
paint_progress_SuppressedRestartsInterval(c, real, width) ==
    IF ~c.v.options.progress_enabled \/ c.v.suspended THEN c
    ELSE LET now == clock(c.v, real) IN
         IF TooSoon(c, now) THEN c
         ELSE IF width = None THEN c
         ELSE LET r == render(c.v.model)
                  rendered == StripNewline(r.rendered)
                  c1 == [c EXCEPT !.v.model = r.model]
              IN IF SameAsDrawn(c.v.state, rendered)
                 THEN [c1 EXCEPT !.v.state.last_drawn_time = now]
                 ELSE paint(c1, now, rendered)

\* paint_progress that renders the model before it looks at the gates.
paint_progress_RendersFirst(c, real, width) ==
    LET r == render(c.v.model)
        rendered == StripNewline(r.rendered)
        c1 == [c EXCEPT !.v.model = r.model]
    IN IF ~c.v.options.progress_enabled \/ c.v.suspended THEN c1
       ELSE LET now == clock(c.v, real) IN
            IF TooSoon(c, now) THEN c1
            ELSE IF width = None THEN c1
            ELSE IF SameAsDrawn(c.v.state, rendered) THEN c1
            ELSE paint(c1, now, rendered)

\* paint_progress that paints for 80 columns when the width is unknown.
paint_progress_DefaultWidth(c, real, width) ==
    IF ~c.v.options.progress_enabled \/ c.v.suspended THEN c
    ELSE LET now == clock(c.v, real) IN
         IF TooSoon(c, now) THEN c
         ELSE LET r == render(c.v.model)
                  rendered == StripNewline(r.rendered)
                  c1 == [c EXCEPT !.v.model = r.model]
              IN IF SameAsDrawn(c.v.state, rendered) THEN c1
                 ELSE paint(c1, now, rendered)

\* paint_progress that does not look at progress_enabled.
paint_progress_IgnoresEnabled(c, real, width) ==
    IF c.v.suspended THEN c
    ELSE LET now == clock(c.v, real) IN
         IF TooSoon(c, now) THEN c
         ELSE IF width = None THEN c
         ELSE LET r == render(c.v.model)
                  rendered == StripNewline(r.rendered)
                  c1 == [c EXCEPT !.v.model = r.model]
              IN IF SameAsDrawn(c.v.state, rendered) THEN c1
                 ELSE paint(c1, now, rendered)

\* InnerView::paint_progress; c is [v: InnerView, out], real the system clock,
\* width the result of the width query if it is made.
paint_progress(c, real, width) ==
    IF ~c.v.options.progress_enabled \/ c.v.suspended THEN c
    ELSE LET now == clock(c.v, real) IN
         IF TooSoon(c, now) THEN c
         ELSE IF width = None THEN c
         ELSE LET r == render(c.v.model)
                  rendered == StripNewline(r.rendered)
                  c1 == [c EXCEPT !.v.model = r.model]
              IN IF SameAsDrawn(c.v.state, rendered) THEN c1
                 ELSE paint(c1, now, rendered)

\* hide that moves up one line more than the bar has.
hide_UpOneMore(c) ==
    IF c.v.state.tag = "ProgressDrawn"
    THEN [write_output(c, <<MoveUp(c.v.state.cursor_y + 1),
                            CLEAR_TO_END_OF_SCREEN, ENABLE_LINE_WRAP>>)
            EXCEPT !.v.state = StateNone]
    ELSE c

\* hide that erases the bar and leaves line wrap disabled.
hide_NoEnableWrap(c) ==
    IF c.v.state.tag = "ProgressDrawn"
    THEN [write_output(c, up_n_lines_and_home(c.v.state.cursor_y)
                          \o <<CLEAR_TO_END_OF_SCREEN>>)
            EXCEPT !.v.state = StateNone]
    ELSE c

\* hide that forgets a printed line or an incomplete line.
hide_AlwaysNone(c) ==
    IF c.v.state.tag = "ProgressDrawn"
    THEN [write_output(c, up_n_lines_and_home(c.v.state.cursor_y)
                          \o <<CLEAR_TO_END_OF_SCREEN, ENABLE_LINE_WRAP>>)
            EXCEPT !.v.state = StateNone]
    ELSE [c EXCEPT !.v.state = StateNone]

\* hide that erases the bar and still takes it for drawn.
hide_KeepsDrawn(c) ==
    IF c.v.state.tag = "ProgressDrawn"
    THEN write_output(c, up_n_lines_and_home(c.v.state.cursor_y)
                         \o <<CLEAR_TO_END_OF_SCREEN, ENABLE_LINE_WRAP>>)
    ELSE c

\* InnerView::hide
hide(c) ==
    IF c.v.state.tag = "ProgressDrawn"
    THEN [write_output(c, up_n_lines_and_home(c.v.state.cursor_y)
                          \o <<CLEAR_TO_END_OF_SCREEN, ENABLE_LINE_WRAP>>)
            EXCEPT !.v.state = StateNone]
    ELSE c

\* suspend that also forgets a printed line or an incomplete line.
suspend_ResetsState(c) ==
    [hide([c EXCEPT !.v.suspended = TRUE]) EXCEPT !.v.state = StateNone]

\* suspend that sets the flag and leaves the bar on the screen.
suspend_FlagOnly(c) == [c EXCEPT !.v.suspended = TRUE]

\* InnerView::suspend
suspend(c) == hide([c EXCEPT !.v.suspended = TRUE])

\* resume that clears the flag and waits for the next update to paint.
resume_FlagOnly(c, real, width) == [c EXCEPT !.v.suspended = FALSE]

\* InnerView::resume
resume(c, real, width) == paint_progress([c EXCEPT !.v.suspended = FALSE], real, width)

\* An update callback: it stores a new text and counts itself; it returns
\* the count of updates before it.
update_fn(text, model) ==
    [model |-> [model EXCEPT !.text = text, !.update_count = @ + 1],
     r |-> model.update_count]

\* update that leaves the callback out while the view is suspended.
update_SkipsWhenSuspended(c, text, real, width) ==
    LET u == update_fn(text, c.v.model)
    IN IF c.v.suspended THEN [c |-> c, r |-> u.r]
       ELSE [c |-> paint_progress([c EXCEPT !.v.model = u.model], real, width),
             r |-> u.r]

\* InnerView::update: the InnerView after the call, and the value returned.
update(c, text, real, width) ==
    LET u == update_fn(text, c.v.model)
    IN [c |-> paint_progress([c EXCEPT !.v.model = u.model], real, width),
        r |-> u.r]

\* write that hides the bar for an empty buffer too.
write_EmptyHides(c, buf, real) ==
    LET c1 == hide(c)
    IN IF Len(buf) = 0 THEN [c |-> c1, r |-> 0]
       ELSE LET c2 == [c1 EXCEPT !.v.state =
                           IF buf[Len(buf)] = NL
                           THEN Printed(clock(c1.v, real))
                           ELSE IncompleteLine]
            IN [c |-> write_output(c2, buf), r |-> Len(buf)]

\* write that records nothing when no bar can be shown.
write_StateOnlyWhenShown(c, buf, real) ==
    IF Len(buf) = 0 THEN [c |-> c, r |-> 0]
    ELSE IF c.v.suspended \/ ~c.v.options.progress_enabled
    THEN [c |-> write_output(hide(c), buf), r |-> Len(buf)]
    ELSE LET c1 == hide(c)
             c2 == [c1 EXCEPT !.v.state =
                        IF buf[Len(buf)] = NL
                        THEN Printed(clock(c1.v, real))
                        ELSE IncompleteLine]
         IN [c |-> write_output(c2, buf), r |-> Len(buf)]

\* write that takes every message for a complete line.
write_AlwaysPrinted(c, buf, real) ==
    IF Len(buf) = 0 THEN [c |-> c, r |-> 0]
    ELSE LET c1 == hide(c)
             c2 == [c1 EXCEPT !.v.state = Printed(clock(c1.v, real))]
         IN [c |-> write_output(c2, buf), r |-> Len(buf)]

\* write that prints without hiding the bar first.
write_NoHide(c, buf, real) ==
    IF Len(buf) = 0 THEN [c |-> c, r |-> 0]
    ELSE LET c2 == [c EXCEPT !.v.state =
                        IF buf[Len(buf)] = NL
                        THEN Printed(clock(c.v, real))
                        ELSE IncompleteLine]
         IN [c |-> write_output(c2, buf), r |-> Len(buf)]

\* InnerView::write: the InnerView after the call, and the count returned.
write(c, buf, real) ==
    IF Len(buf) = 0 THEN [c |-> c, r |-> 0]
    ELSE LET c1 == hide(c)
             c2 == [c1 EXCEPT !.v.state =
                        IF buf[Len(buf)] = NL
                        THEN Printed(clock(c1.v, real))
                        ELSE IncompleteLine]
         IN [c |-> write_output(c2, buf), r |-> Len(buf)]

\* finish that prints the final message only when the bar may be shown.
finish_FinalOnlyWhenShown(c, final_message) ==
    LET c1 == hide(c)
        c2 == IF /\ Len(final_message) > 0
                 /\ c.v.options.progress_enabled /\ ~c.v.suspended
              THEN write_output(c1, final_message \o <<NL>>)
              ELSE c1
    IN [c |-> c2, r |-> c2.v.model]

\* finish that leaves the bar on the screen.
finish_NoErase(c, final_message) ==
    LET c2 == IF Len(final_message) > 0
              THEN write_output(c, final_message \o <<NL>>)
              ELSE c
    IN [c |-> c2, r |-> c2.v.model]

\* InnerView::finish: the stream after the call, and the model returned;
\* final_message is what the model's final_message() returns.
finish(c, final_message) ==
    LET c1 == hide(c)
        c2 == IF Len(final_message) > 0
              THEN write_output(c1, final_message \o <<NL>>)
              ELSE c1
    IN [c |-> c2, r |-> c2.v.model]

\* abandon that erases the bar like finish.
abandon_Erases(c) ==
    LET c1 == hide(c)
    IN [c |-> c1, r |-> c1.v.model]

\* InnerView::abandon: the stream after the call, and the model returned.
abandon(c) ==
    LET c1 == IF c.v.state.tag = "ProgressDrawn"
              THEN write_output(c, <<NL>>)
              ELSE c
        c2 == [c1 EXCEPT !.v.state = StateNone]
    IN [c |-> c2, r |-> c2.v.model]

\* InnerView::new
InnerViewNew(model, options, real) ==
    [model |-> model, suspended |-> FALSE, state |-> StateNone,
     options |-> options, fake_clock |-> real]

\* View::new that keeps the progress option whatever the destination.
ViewNew_KeepsEnabled(model, options, is_possible, real) ==
    InnerViewNew(model, options, real)

\* View::new: progress is switched off when the destination is not possible.
ViewNew(model, options, is_possible, real) ==
    InnerViewNew(model,
                 [options EXCEPT !.progress_enabled = @ /\ is_possible],
                 real)

\* Destination::is_possible: a capture buffer always is; a terminal stream
\* depends on the tty, $TERM and the console mode.
IsPossible(destination) ==
    IF destination = "Capture" THEN {TRUE} ELSE BOOLEAN

\* Duration::ZERO (repaint on every update) or a positive interval.
Durations == {0, MaxTime}

Options ==
    [update_interval : Durations, print_holdoff : Durations,
     progress_enabled : BOOLEAN, fake_clock : BOOLEAN,
     destination : Destinations]

\* The model the application hands to View::new.
Models == [text : {<<"a">>}, update_count : {0}, draw_count : {0}]

\* The InnerView held by the View and its destination stream.
Ctx == [v |-> inner[1], out |-> out]

NoCall ==
    [op |-> "new", arg |-> <<>>, ret |-> None, emitted |-> <<>>,
     width |-> None]

Init ==
    /\ real_clock = 0
    /\ \E model \in Models, options \in Options :
         \E is_possible \in IsPossible(options.destination) :
            inner = Some(ViewNew(model, options, is_possible, 0))
    /\ out = <<>>
    /\ dropped = FALSE
    /\ panicked = FALSE
    /\ returned = None
    /\ last = NoCall
    /\ nops = 0
    /\ drawn_at_suspend = FALSE
    /\ ThreadsIdle

\* The View can be called: it exists and its inner state is present.
Alive == ~dropped /\ ~panicked /\ inner # None

\* The bytes appended to the stream by a call.
Emitted(before, after) == SubSeq(after, Len(before) + 1, Len(after))

\* A call on the View through its lock: c is the inner state and stream the
\* call leaves behind.
Call(op, arg, c, ret, width) ==
    /\ inner' = Some(c.v)
    /\ out' = c.out
    /\ last' = [op |-> op, arg |-> arg, ret |-> ret,
                emitted |-> Emitted(out, c.out), width |-> width]
    /\ nops' = nops + 1
    /\ drawn_at_suspend' =
         CASE op = "suspend" ->
                 \/ inner[1].state.tag = "ProgressDrawn"
                 \/ (inner[1].suspended /\ drawn_at_suspend)
           [] op = "write" /\ Len(arg) > 0 -> FALSE
           [] OTHER -> drawn_at_suspend
    /\ UNCHANGED <<real_clock, dropped, panicked, returned, lock, threads,
                   hist>>

\* A call that consumes the View: stream is the destination afterwards.
Consume(op, arg, stream, model) ==
    /\ inner' = None
    /\ out' = stream
    /\ dropped' = TRUE
    /\ returned' = model
    /\ last' = [op |-> op, arg |-> arg, ret |-> model,
                emitted |-> Emitted(out, stream), width |-> None]
    /\ UNCHANGED <<real_clock, panicked, nops, drawn_at_suspend, lock,
                   threads, hist>>

\* The system clock moves forward.
Tick ==
    /\ ~dropped /\ ~panicked
    /\ real_clock < MaxTime
    /\ real_clock' = real_clock + 1
    /\ UNCHANGED <<inner, out, dropped, panicked, returned, last, nops,
                   drawn_at_suspend, lock, threads, hist>>

\* View::update
Update ==
    /\ Alive /\ nops < MaxOps
    /\ \E text \in Texts, width \in Widths(inner[1].options.destination) :
         LET u == update(Ctx, text, real_clock, width)
         IN Call("update", text, u.c, Some(u.r), width)

\* View::message, View::message_bytes and io::Write::write
Message ==
    /\ Alive /\ nops < MaxOps
    /\ \E buf \in Messages :
         LET w == write(Ctx, buf, real_clock)
         IN Call("write", buf, w.c, Some(w.r), None)

\* View::suspend
Suspend ==
    /\ Alive /\ nops < MaxOps
    /\ Call("suspend", <<>>, suspend(Ctx), None, None)

\* View::hide
Hide ==
    /\ Alive /\ nops < MaxOps
    /\ Call("hide", <<>>, hide(Ctx), None, None)

\* View::resume
Resume ==
    /\ Alive /\ nops < MaxOps
    /\ \E width \in Widths(inner[1].options.destination) :
         Call("resume", <<>>, resume(Ctx, real_clock, width), None, width)

\* View::set_fake_clock and InnerView::set_fake_clock: the assertion fails
\* when the fake clock was not enabled.
SetFakeClock ==
    /\ Alive
    /\ \E fake_clock \in 0..MaxTime :
         /\ IF inner[1].options.fake_clock
            THEN /\ inner' = Some([inner[1] EXCEPT !.fake_clock = fake_clock])
                 /\ panicked' = FALSE
            ELSE /\ inner' = inner
                 /\ panicked' = TRUE
         /\ last' = [op |-> "set_fake_clock", arg |-> <<fake_clock>>,
                     ret |-> None, emitted |-> <<>>, width |-> None]
    /\ UNCHANGED <<out, real_clock, dropped, returned, nops,
                   drawn_at_suspend, lock, threads, hist>>

\* drop that prints the final message even when the inner state was taken.
drop_FinalMessageAgain(opt, stream, final_message) ==
    IF opt # None
    THEN finish([v |-> opt[1], out |-> stream], final_message).c.out
    ELSE stream \o (IF Len(final_message) > 0
                    THEN final_message \o <<NL>> ELSE <<>>)

\* impl Drop for View: finish if the inner state is still there. The lock
\* is free here: no other call is in progress.
drop(opt, stream, final_message) ==
    IF opt # None
    THEN finish([v |-> opt[1], out |-> stream], final_message).c.out
    ELSE stream

\* View::finish: take the inner state, finish it, and drop the emptied View.
Finish ==
    /\ Alive
    /\ \E final_message \in FinalMessages :
         LET f == finish(Ctx, final_message)
         IN Consume("finish", final_message,
                    drop(None, f.c.out, final_message), Some(f.r))

\* View::abandon: take the inner state, abandon it, and drop the emptied View.
Abandon ==
    /\ Alive
    /\ \E final_message \in FinalMessages :
         LET a == abandon(Ctx)
         IN Consume("abandon", <<>>,
                    drop(None, a.c.out, final_message), Some(a.r))

\* The View goes out of scope without finish or abandon.
Drop ==
    /\ Alive
    /\ \E final_message \in FinalMessages :
         Consume("drop", final_message, drop(inner, out, final_message), None)

Next ==
    \/ Tick
    \/ Update
    \/ Message
    \/ Suspend
    \/ Hide
    \/ Resume
    \/ SetFakeClock
    \/ Finish
    \/ Abandon
    \/ Drop

Spec == Init /\ [][Next]_vars

\* ------------------------------------------------- multi-line models

\* Largest number of line terminators inside a rendered text.
MaxLines == 2

\* k lines of text joined by line terminators, as MultiLineModel renders.
JoinedLines(k) == [i \in 1..(2 * k - 1) |-> IF i % 2 = 1 THEN "b" ELSE NL]

\* Renders of 1 .. MaxLines + 1 lines, with no, one or two trailing line
\* terminators.
LineTexts ==
    { JoinedLines(k) \o t : k \in 1..(MaxLines + 1),
                            t \in {<<>>, <<NL>>, <<NL, NL>>} }

\* A View on a capture buffer that repaints on every update.
InitLines ==
    /\ real_clock = 0
    /\ \E model \in Models :
          inner = Some(ViewNew(model,
                               [update_interval |-> 0, print_holdoff |-> 0,
                                progress_enabled |-> TRUE,
                                fake_clock |-> FALSE,
                                destination |-> "Capture"],
                               TRUE, 0))
    /\ out = <<>>
    /\ dropped = FALSE
    /\ panicked = FALSE
    /\ returned = None
    /\ last = NoCall
    /\ nops = 0
    /\ drawn_at_suspend = FALSE
    /\ ThreadsIdle

\* View::update with a callback that stores a multi-line text.
UpdateLines ==
    /\ Alive /\ nops < MaxOps
    /\ \E text \in LineTexts, width \in Widths(inner[1].options.destination) :
         LET u == update(Ctx, text, real_clock, width)
         IN Call("update", text, u.c, Some(u.r), width)

NextLines ==
    \/ UpdateLines
    \/ Message
    \/ Hide
    \/ Suspend
    \/ Resume
    \/ Finish
    \/ Drop

SpecLines == InitLines /\ [][NextLines]_vars

\* ------------------------------------------------- a counting model

\* Largest value the counting model is set to.
MaxCount == 2

\* format!("count: {}", i)
CountText(i) == <<"count: " \o ToString(i)>>

\* A model rendering "count: {i}" that also keeps the values it was set to.
CountModels ==
    [text : {CountText(0)}, update_count : {0}, draw_count : {0},
     seen : {<<>>}]

\* A View of the counting model on a capture buffer, with update_interval
\* and print_holdoff zero.
InitCount ==
    /\ real_clock = 0
    /\ \E model \in CountModels, fake_clock \in BOOLEAN :
          inner = Some(ViewNew(model,
                               [update_interval |-> 0, print_holdoff |-> 0,
                                progress_enabled |-> TRUE,
                                fake_clock |-> fake_clock,
                                destination |-> "Capture"],
                               TRUE, 0))
    /\ out = <<>>
    /\ dropped = FALSE
    /\ panicked = FALSE
    /\ returned = None
    /\ last = NoCall
    /\ nops = 0
    /\ drawn_at_suspend = FALSE
    /\ ThreadsIdle

\* View::update with a callback that sets the count to i.
UpdateCount ==
    /\ Alive /\ nops < MaxOps
    /\ \E i \in 0..MaxCount, width \in Widths(inner[1].options.destination) :
         LET c == [Ctx EXCEPT !.v.model.seen = Append(@, i)]
             u == update(c, CountText(i), real_clock, width)
         IN Call("update", CountText(i), u.c, Some(u.r), width)

NextCount ==
    \/ UpdateCount
    \/ Message
    \/ Hide
    \/ Tick

SpecCount == InitCount /\ [][NextCount]_vars

\* ------------------------------------------------- threads sharing a View

\* A lock that is handed out while another thread holds it.
CanLock_Always(holder) == TRUE

\* Mutex::lock returns when no thread holds the lock.
CanLock(holder) == holder = None

\* The model of the rate limiting tests: it renders its update count.
ThreadModels ==
    [text : {CountText(0)}, update_count : {0}, draw_count : {0}]

\* A View shared by the threads; it may repaint on every update or once
\* per interval, on a capture buffer or on a terminal.
InitThreads ==
    /\ real_clock = 0
    /\ \E model \in ThreadModels, update_interval \in Durations,
          destination \in {"Stdout", "Capture"} :
          inner = Some(ViewNew(model,
                               [update_interval |-> update_interval,
                                print_holdoff |-> 0,
                                progress_enabled |-> TRUE,
                                fake_clock |-> FALSE,
                                destination |-> destination],
                               TRUE, 0))
    /\ out = <<>>
    /\ dropped = FALSE
    /\ panicked = FALSE
    /\ returned = None
    /\ last = NoCall
    /\ nops = 0
    /\ drawn_at_suspend = FALSE
    /\ ThreadsIdle

\* What the steps of a thread leave alone.
ThreadFrame ==
    UNCHANGED <<real_clock, dropped, panicked, returned, last,
                drawn_at_suspend>>

\* View::update or View::message, first step: self.inner.lock(). The call
\* joins the history at the moment it gets the lock.
Lock(t) ==
    /\ inner # None /\ ~dropped
    /\ threads[t].pc = "idle"
    /\ nops < MaxOps
    /\ CanLock(lock)
    /\ \E op \in {"update", "write"} :
         /\ threads' = [threads EXCEPT ![t].pc = "locked", ![t].op = op,
                                       ![t].group = Len(hist) + 1]
         /\ hist' = Append(hist, [thread |-> t, op |-> op, applied |-> FALSE,
                                  time |-> 0, bytes |-> <<>>])
    /\ lock' = Some(t)
    /\ nops' = nops + 1
    /\ UNCHANGED <<inner, out>>
    /\ ThreadFrame

\* InnerView::update, update_fn(&mut self.model): the callback reads the
\* model.
CallbackRead(t) ==
    /\ threads[t].pc = "locked" /\ threads[t].op = "update"
    /\ threads' = [threads EXCEPT ![t].pc = "read",
                                  ![t].seen = Some(inner[1].model)]
    /\ UNCHANGED <<inner, out, lock, hist, nops>>
    /\ ThreadFrame

\* The callback stores the model it computed from what it read: one more
\* update, and the text that shows it.
CallbackWrite(t) ==
    /\ threads[t].pc = "read"
    /\ LET seen == threads[t].seen[1]
           u == update_fn(CountText(seen.update_count + 1), seen)
       IN inner' = Some([inner[1] EXCEPT
                            !.model.text = u.model.text,
                            !.model.update_count = u.model.update_count])
    /\ threads' = [threads EXCEPT ![t].pc = "updated",
                                  ![t].n_updates = @ + 1]
    /\ hist' = [hist EXCEPT ![threads[t].group].applied = TRUE]
    /\ UNCHANGED <<out, lock, nops>>
    /\ ThreadFrame

\* InnerView::update, self.paint_progress(): the gates, the width query and
\* the render; the bytes are written next, and self.state is assigned after
\* them.
PaintProgress(t) ==
    /\ threads[t].pc = "updated"
    /\ \E width \in Widths(inner[1].options.destination) :
         LET c == paint_progress(Ctx, real_clock, width)
         IN /\ inner' = Some([inner[1] EXCEPT !.model = c.v.model])
            /\ threads' = [threads EXCEPT ![t].pc = "writing",
                                          ![t].buf = Emitted(out, c.out),
                                          ![t].state = Some(c.v.state)]
    /\ hist' = [hist EXCEPT ![threads[t].group].time =
                               clock(inner[1], real_clock)]
    /\ UNCHANGED <<out, lock, nops>>
    /\ ThreadFrame

\* View::message, InnerView::write: the clear of a drawn bar and the message
\* are the bytes to write.
WriteMessage(t) ==
    /\ threads[t].pc = "locked" /\ threads[t].op = "write"
    /\ LET w == write(Ctx, <<"m", NL>>, real_clock)
       IN threads' = [threads EXCEPT ![t].pc = "writing",
                                     ![t].buf = Emitted(out, w.c.out),
                                     ![t].state = Some(w.c.v.state)]
    /\ hist' = [hist EXCEPT ![threads[t].group].time =
                               clock(inner[1], real_clock)]
    /\ UNCHANGED <<inner, out, lock, nops>>
    /\ ThreadFrame

\* InnerView::write_output: the next piece of the buffer reaches the
\* destination.
WriteOutput(t) ==
    /\ threads[t].pc = "writing" /\ threads[t].buf # <<>>
    /\ out' = Append(out, Head(threads[t].buf))
    /\ threads' = [threads EXCEPT ![t].buf = Tail(@)]
    /\ hist' = [hist EXCEPT ![threads[t].group].bytes =
                               Append(@, Head(threads[t].buf))]
    /\ UNCHANGED <<inner, lock, nops>>
    /\ ThreadFrame

\* The end of the call: self.state is what the call made it, and the guard
\* is dropped.
Unlock(t) ==
    /\ threads[t].pc = "writing" /\ threads[t].buf = <<>>
    /\ inner' = Some([inner[1] EXCEPT !.state = threads[t].state[1]])
    /\ lock' = None
    /\ threads' = [threads EXCEPT
                      ![t] = [IdleThread EXCEPT
                                 !.n_updates = threads[t].n_updates]]
    /\ UNCHANGED <<out, hist, nops>>
    /\ ThreadFrame

NextThreads ==
    \/ \E t \in Threads : Lock(t)
    \/ \E t \in Threads : CallbackRead(t)
    \/ \E t \in Threads : CallbackWrite(t)
    \/ \E t \in Threads : PaintProgress(t)
    \/ \E t \in Threads : WriteMessage(t)
    \/ \E t \in Threads : WriteOutput(t)
    \/ \E t \in Threads : Unlock(t)
    \/ Tick

SpecThreads == InitThreads /\ [][NextThreads]_vars

\* ------------------------------------------------- dropping a shared View

\* try_lock that takes the lock whoever holds it.
try_lock_Always(holder) == TRUE

\* Mutex::try_lock: the guard is handed out only when no one holds the lock;
\* it never waits.
try_lock(holder) == holder = None

\* impl Drop for View, with the lock possibly held by another party: finish
\* runs only if try_lock hands out the guard and the inner state is there.
DropShared ==
    /\ ~dropped /\ ~panicked
    /\ IF try_lock(lock) /\ inner # None
       THEN \E final_message \in FinalMessages :
               LET stream == finish(Ctx, final_message).c.out
               IN /\ inner' = None
                  /\ out' = stream
                  /\ last' = [op |-> "drop", arg |-> final_message,
                              ret |-> None, emitted |-> Emitted(out, stream),
                              width |-> None]
       ELSE /\ UNCHANGED <<inner, out>>
            /\ last' = [op |-> "drop", arg |-> <<>>, ret |-> None,
                        emitted |-> <<>>, width |-> None]
    /\ dropped' = TRUE
    /\ UNCHANGED <<real_clock, panicked, returned, nops, drawn_at_suspend,
                   lock, threads, hist>>

\* finish or abandon by the one owner of the View, when no thread is inside
\* a call.
FinishUnshared ==
    /\ lock = None
    /\ \A t \in Threads : threads[t].pc = "idle"
    /\ (Finish \/ Abandon)

NextDrop ==
    \/ NextThreads
    \/ DropShared
    \/ FinishUnshared

SpecDrop == InitThreads /\ [][NextDrop]_vars

\* ------------------------------------------------- unavailable destination

\* A View made on a terminal stream for which Destination::is_possible is
\* false (not a tty, TERM=dumb, ANSI not enabled), with any options.
InitUnavailable ==
    /\ real_clock = 0
    /\ \E model \in Models, options \in Options :
         /\ options.destination \in {"Stdout", "Stderr"}
         /\ FALSE \in IsPossible(options.destination)
         /\ inner = Some(ViewNew(model, options, FALSE, 0))
    /\ out = <<>>
    /\ dropped = FALSE
    /\ panicked = FALSE
    /\ returned = None
    /\ last = NoCall
    /\ nops = 0
    /\ drawn_at_suspend = FALSE
    /\ ThreadsIdle

SpecUnavailable == InitUnavailable /\ [][Next]_vars

\* ------------------------------------------------- calls waiting for the lock

\* A guard whose drop leaves the lock held.
guard_drop_Leaks(holder) == holder

\* MutexGuard::drop at the end of the call's statement: the lock is free.
guard_drop(holder) == None

\* Number of calls the threads make on the shared View.
MaxCalls == 2

\* The calls threads make on a shared &View.
CallOps == {"update", "message", "hide", "suspend", "resume", "inspect_model"}

\* A View on a capture buffer that repaints on every update, shared by the
\* threads.
InitCalls ==
    /\ real_clock = 0
    /\ \E model \in Models :
          inner = Some(ViewNew(model,
                               [update_interval |-> 0, print_holdoff |-> 0,
                                progress_enabled |-> TRUE,
                                fake_clock |-> FALSE,
                                destination |-> "Capture"],
                               TRUE, 0))
    /\ out = <<>>
    /\ dropped = FALSE
    /\ panicked = FALSE
    /\ returned = None
    /\ last = NoCall
    /\ nops = 0
    /\ drawn_at_suspend = FALSE
    /\ ThreadsIdle

\* A thread calls the View and reaches self.inner.lock(); group records
\* whether the lock was held at that moment.
BeginCall(t) ==
    /\ inner # None /\ ~dropped
    /\ threads[t].pc = "idle"
    /\ nops < MaxCalls
    /\ \E op \in CallOps :
         threads' = [threads EXCEPT ![t].pc = "waiting", ![t].op = op,
                                    ![t].group = IF lock = None THEN 0 ELSE 1]
    /\ nops' = nops + 1
    /\ UNCHANGED <<inner, out, lock, hist>>
    /\ ThreadFrame

\* self.inner.lock() returns: the thread holds the lock.
AcquireLock(t) ==
    /\ threads[t].pc = "waiting"
    /\ CanLock(lock)
    /\ lock' = Some(t)
    /\ threads' = [threads EXCEPT ![t].pc = "locked"]
    /\ UNCHANGED <<inner, out, hist, nops>>
    /\ ThreadFrame

\* The body of the call on the InnerView, under the lock; the callback of
\* update stores a text, that of inspect_model only reads the model. Both
\* return and neither calls the View.
RunCall(t) ==
    /\ threads[t].pc = "locked" /\ lock = Some(t)
    /\ \E width \in Widths(inner[1].options.destination) :
         LET op == threads[t].op
             text == <<"b", NL>>
             c == CASE op = "update" ->
                          update(Ctx, text, real_clock, width).c
                    [] op = "message" ->
                          write(Ctx, <<"m", NL>>, real_clock).c
                    [] op = "hide" -> hide(Ctx)
                    [] op = "suspend" -> suspend(Ctx)
                    [] op = "resume" -> resume(Ctx, real_clock, width)
                    [] op = "inspect_model" -> Ctx
         IN /\ inner' = Some(c.v)
            /\ out' = c.out
            /\ last' = [op |-> op, arg |-> <<>>, ret |-> None,
                        emitted |-> Emitted(out, c.out), width |-> width]
    /\ threads' = [threads EXCEPT
                      ![t].pc = "done",
                      ![t].n_updates =
                          IF threads[t].op = "update" THEN @ + 1 ELSE @]
    /\ UNCHANGED <<real_clock, dropped, panicked, returned, nops,
                   drawn_at_suspend, lock, hist>>

\* The end of the call: the guard is dropped and the thread is out of the
\* View.
ReleaseLock(t) ==
    /\ threads[t].pc = "done" /\ lock = Some(t)
    /\ lock' = guard_drop(lock)
    /\ threads' = [threads EXCEPT ![t].pc = "idle", ![t].op = ""]
    /\ UNCHANGED <<inner, out, hist, nops>>
    /\ ThreadFrame

NextCalls ==
    \/ \E t \in Threads : BeginCall(t)
    \/ \E t \in Threads : AcquireLock(t)
    \/ \E t \in Threads : RunCall(t)
    \/ \E t \in Threads : ReleaseLock(t)

\* A thread inside a call keeps running, and the callbacks return; the
\* parking_lot mutex is eventually fair, so a thread that waits for the lock
\* is not passed over for ever.
FairCalls ==
    \A t \in Threads :
       /\ WF_vars(RunCall(t))
       /\ WF_vars(ReleaseLock(t))
       /\ SF_vars(AcquireLock(t))

SpecCalls == InitCalls /\ [][NextCalls]_vars /\ FairCalls

\* ------------------------------------------------- inspecting the model

\* View::inspect_model with a callback that reads the count of updates.
InspectModel ==
    /\ Alive /\ nops < MaxOps
    /\ Call("inspect_model", <<>>, Ctx, Some(inner[1].model.update_count),
            None)

NextInspect ==
    \/ Next
    \/ InspectModel

SpecInspect == Init /\ [][NextInspect]_vars

\* ------------------------------------------------------------ properties

\* Tokens of rendered text, messages and final messages.
TextTokens == {"a", "b", "m", "f", NL}

\* A cursor movement: ESC[1G or ESC[nF.
IsMove(tok) ==
    tok \notin TextTokens \cup
               {DISABLE_LINE_WRAP, ENABLE_LINE_WRAP, CLEAR_TO_END_OF_SCREEN}

\* Number of paints in a piece of the stream: every paint disables line wrap
\* once, and nothing else does.
NPaints(s) == Cardinality({i \in 1..Len(s) : s[i] = DISABLE_LINE_WRAP})

\* Number of clears in a piece of the stream: only a clear enables line wrap.
NClears(s) == Cardinality({i \in 1..Len(s) : s[i] = ENABLE_LINE_WRAP})

\* e is exactly one paint of text: an optional cursor movement, disable line
\* wrap, clear to end of screen, and the text.
OnePaint(e, text) ==
    \E k \in {0, 1} :
       /\ Len(e) = k + 2 + Len(text)
       /\ k = 1 => IsMove(e[1])
       /\ e[k + 1] = DISABLE_LINE_WRAP
       /\ e[k + 2] = CLEAR_TO_END_OF_SCREEN
       /\ SubSeq(e, k + 3, Len(e)) = text

\* What a paint of the model shows: its render without one trailing line
\* terminator.
Rendered(model) == StripNewline(render(model).rendered)

\* The value clock() has for the inner state v.
Now(v) == clock(v, real_clock)

\* This step is a call of op on the View (update, write, hide, suspend or
\* resume).
Calls(op) == inner # None /\ nops' = nops + 1 /\ last'.op = op

\* This step is a teardown through op (finish, abandon or drop).
Consumes(op) == inner # None /\ inner' = None /\ last'.op = op

Drawn(v) == v.state.tag = "ProgressDrawn"

\* C1. Rate limiting: while the bar is drawn with last paint time t, an
\* update at a clock value now with now - t < update_interval emits no
\* bytes, does not call render and leaves the display state unchanged; and
\* no update emits more than one paint. So updates made while the clock
\* stays inside one update_interval window paint at most once.
C1_RateLimit ==
    [][ Calls("update") =>
          /\ NPaints(last'.emitted) <= 1
          /\ ( /\ Drawn(inner[1])
               /\ Elapsed(Now(inner[1]), inner[1].state.last_drawn_time)
                     < inner[1].options.update_interval )
             => /\ out' = out
                /\ last'.emitted = <<>>
                /\ inner'[1].model.draw_count = inner[1].model.draw_count
                /\ inner'[1].state = inner[1].state
      ]_vars

\* An update changed what the model renders, inside the window of the last
\* paint, and nothing was painted.
C1_Witness ==
    /\ inner # None
    /\ last.op = "update"
    /\ last.emitted = <<>>
    /\ Drawn(inner[1])
    /\ Elapsed(Now(inner[1]), inner[1].state.last_drawn_time)
          < inner[1].options.update_interval
    /\ Rendered(inner[1].model) # inner[1].state.last_drawn_string
    /\ inner[1].model.draw_count = 1

\* C2. Every update applies its callback to the model exactly once and
\* returns the callback's value, in every state of the view; no other call
\* changes what the callbacks stored, so after n updates the model holds the
\* result of the n callbacks in call order.
C2_CallbackAlwaysRuns ==
    [][ /\ Calls("update") =>
            LET u == update_fn(last'.arg, inner[1].model)
            IN /\ inner'[1].model.text = u.model.text
               /\ inner'[1].model.update_count = u.model.update_count
               /\ inner'[1].model.update_count = inner[1].model.update_count + 1
               /\ last'.ret = Some(u.r)
        /\ (inner # None /\ inner' # None /\ ~Calls("update")) =>
               /\ inner'[1].model.text = inner[1].model.text
               /\ inner'[1].model.update_count = inner[1].model.update_count
      ]_vars

\* Two updates were made while the view was suspended: neither was painted,
\* both are in the model.
C2_Witness ==
    /\ inner # None
    /\ last.op = "update"
    /\ inner[1].suspended
    /\ inner[1].model.update_count = 2
    /\ inner[1].model.text = last.arg
    /\ last.ret = Some(1)
    /\ out = <<>>

\* C3. If progress is enabled, the view is not suspended, a width is
\* available, the bar is drawn with last paint time t, and update is called
\* at clock value now with now - t >= update_interval and the model rendering
\* (render, one trailing line terminator removed) a text different from the
\* one drawn, then the update emits exactly one paint, and afterwards the
\* state is ProgressDrawn with last_drawn_time = now and last_drawn_string
\* the rendered text of the model as it is after the callback.
C3_RepaintAfterInterval ==
    [][ ( /\ Calls("update")
          /\ inner[1].options.progress_enabled
          /\ ~inner[1].suspended
          /\ last'.width # None
          /\ Drawn(inner[1])
          /\ Elapsed(Now(inner[1]), inner[1].state.last_drawn_time)
                >= inner[1].options.update_interval
          /\ Rendered(inner'[1].model) # inner[1].state.last_drawn_string )
        => /\ OnePaint(last'.emitted, Rendered(inner'[1].model))
           /\ out' = out \o last'.emitted
           /\ Drawn(inner'[1])
           /\ inner'[1].state.last_drawn_time = Now(inner[1])
           /\ inner'[1].state.last_drawn_string = Rendered(inner'[1].model)
      ]_vars

\* The bar was painted, the clock passed a positive update_interval, and an
\* update repainted it with a new text.
C3_Witness ==
    /\ inner # None
    /\ last.op = "update"
    /\ inner[1].options.update_interval > 0
    /\ Drawn(inner[1])
    /\ inner[1].state.last_drawn_time > 0
    /\ NPaints(out) = 2
    /\ NClears(out) = 0
    /\ Len(last.emitted) > 0 /\ IsMove(last.emitted[1])
    /\ OnePaint(last.emitted, inner[1].state.last_drawn_string)

\* The text of the paint that starts (disable line wrap) at position i of s:
\* the tokens after clear-to-end-of-screen up to the next escape sequence.
PaintText(s, i) ==
    LET stops == {j \in (i + 2)..Len(s) : s[j] \notin TextTokens}
                    \cup {Len(s) + 1}
        stop == CHOOSE j \in stops : \A k \in stops : j <= k
    IN SubSeq(s, i + 2, stop - 1)

\* Two paints that follow each other in the stream with no clear between
\* them (the bar was not hidden, nothing was printed) differ in their text.
NoRepeatedPaint(s) ==
    \A i, j \in 1..Len(s) :
       ( /\ i < j
         /\ s[i] = DISABLE_LINE_WRAP /\ s[j] = DISABLE_LINE_WRAP
         /\ \A k \in (i + 1)..(j - 1) :
               s[k] # DISABLE_LINE_WRAP /\ s[k] # ENABLE_LINE_WRAP )
       => PaintText(s, i) # PaintText(s, j)

\* C4. Identical-render suppression: when the bar is drawn and a paint
\* attempt (by update or resume) that has passed the rate limit renders the
\* text that is drawn, no bytes are emitted and the display state is
\* unchanged; in the stream, two consecutive paints never carry the same
\* text unless the bar was hidden or text was printed between them.
C4_IdenticalSuppressed ==
    /\ [] NoRepeatedPaint(out)
    /\ [][ ( /\ Calls("update") \/ Calls("resume")
             /\ Drawn(inner[1])
             /\ inner[1].options.progress_enabled
             /\ ~inner'[1].suspended
             /\ Elapsed(Now(inner[1]), inner[1].state.last_drawn_time)
                   >= inner[1].options.update_interval
             /\ last'.width # None
             /\ Rendered(inner'[1].model) = inner[1].state.last_drawn_string )
           => /\ out' = out
              /\ last'.emitted = <<>>
              /\ inner'[1].state = inner[1].state
         ]_vars

\* The second update passed the rate limit, render was called again, the
\* text was the one drawn, and the stream still holds one paint.
C4_Witness ==
    /\ inner # None
    /\ last.op = "update"
    /\ last.emitted = <<>>
    /\ Drawn(inner[1])
    /\ Elapsed(Now(inner[1]), inner[1].state.last_drawn_time)
          >= inner[1].options.update_interval
    /\ inner[1].model.update_count = 2
    /\ inner[1].model.draw_count = 2
    /\ NPaints(out) = 1
    /\ Rendered(inner[1].model) = inner[1].state.last_drawn_string

\* C5. Print holdoff: a write whose bytes end in a line terminator at clock
\* value t leaves the state Printed with last_printed = t; that state stays
\* until the bar is painted or something else is written; in it no update
\* or resume paints while now - t < print_holdoff, and an update or resume
\* with now - t >= print_holdoff (progress enabled, view not suspended,
\* width available) paints the bar.
C5_PrintHoldoff ==
    [][ /\ ( /\ Calls("write") /\ Len(last'.arg) > 0
             /\ last'.arg[Len(last'.arg)] = NL )
           => inner'[1].state = Printed(Now(inner[1]))
        /\ ( /\ Calls("update") \/ Calls("resume")
             /\ inner[1].state.tag = "Printed" )
           => IF Elapsed(Now(inner[1]), inner[1].state.last_printed)
                    < inner[1].options.print_holdoff
              THEN /\ out' = out
                   /\ inner'[1].state = inner[1].state
                   /\ inner'[1].model.draw_count = inner[1].model.draw_count
              ELSE ( /\ inner[1].options.progress_enabled
                     /\ ~inner'[1].suspended
                     /\ last'.width # None )
                   => /\ OnePaint(last'.emitted, Rendered(inner'[1].model))
                      /\ out' = out \o last'.emitted
                      /\ Drawn(inner'[1])
        /\ ( /\ inner # None /\ inner' # None
             /\ inner[1].state.tag = "Printed"
             /\ inner'[1].state # inner[1].state )
           => \/ Calls("write") /\ Len(last'.arg) > 0
              \/ (Calls("update") \/ Calls("resume")) /\ Drawn(inner'[1])
      ]_vars

\* A line was printed, an update inside the holdoff was not painted, and an
\* update after the holdoff painted the bar below the line.
C5_Witness ==
    /\ inner # None
    /\ last.op = "update"
    /\ inner[1].options.print_holdoff > 0
    /\ Drawn(inner[1])
    /\ inner[1].model.update_count = 2
    /\ inner[1].model.draw_count = 1
    /\ out = <<"m", NL>> \o last.emitted
    /\ OnePaint(last.emitted, inner[1].state.last_drawn_string)

\* Every paint starts at the start of a line: at the start of the stream,
\* after a clear, after a line terminator, or (a repaint) after the cursor
\* movement to the first line of the bar.
PaintNeverAfterPartialLine(s) ==
    \A i \in 1..Len(s) :
       s[i] = DISABLE_LINE_WRAP =>
          \/ i = 1
          \/ s[i - 1] = ENABLE_LINE_WRAP
          \/ s[i - 1] = NL
          \/ IsMove(s[i - 1])

\* C6. Incomplete line: a write whose bytes do not end in a line terminator
\* leaves the state IncompleteLine; in that state no update and no resume
\* emits anything or calls render, for any clock value, and the state is
\* left only by a write whose bytes end in a line terminator; so no paint in
\* the stream follows a partial line.
C6_IncompleteLineBlocksPaint ==
    /\ [] PaintNeverAfterPartialLine(out)
    /\ [][ /\ ( /\ Calls("write") /\ Len(last'.arg) > 0
                /\ last'.arg[Len(last'.arg)] # NL )
              => inner'[1].state = IncompleteLine
           /\ ( /\ Calls("update") \/ Calls("resume")
                /\ inner[1].state = IncompleteLine )
              => /\ out' = out
                 /\ inner'[1].model.draw_count = inner[1].model.draw_count
           /\ ( /\ inner # None /\ inner' # None
                /\ inner[1].state = IncompleteLine
                /\ ~( /\ Calls("write") /\ Len(last'.arg) > 0
                      /\ last'.arg[Len(last'.arg)] = NL ) )
              => /\ inner'[1].state = IncompleteLine
                 /\ NPaints(last'.emitted) = 0
         ]_vars

\* A partial line was written, then an update and a resume were made with
\* progress enabled, a width available and no holdoff: nothing was painted.
C6_Witness ==
    /\ inner # None
    /\ last.op = "resume"
    /\ last.width # None
    /\ inner[1].options.progress_enabled
    /\ inner[1].options.print_holdoff = 0
    /\ inner[1].state = IncompleteLine
    /\ inner[1].model.update_count = 1
    /\ inner[1].model.draw_count = 0
    /\ out = <<"m">>

\* No message byte lies between a paint and the clear that erases it: the
\* last paint or clear before a message byte, if there is one, is a clear.
MessageNeverInsideBar(s) ==
    \A i \in 1..Len(s) :
       s[i] = "m" =>
          \A j \in 1..(i - 1) :
             ( /\ s[j] \in {DISABLE_LINE_WRAP, ENABLE_LINE_WRAP}
               /\ \A k \in (j + 1)..(i - 1) :
                     s[k] \notin {DISABLE_LINE_WRAP, ENABLE_LINE_WRAP} )
             => s[j] = ENABLE_LINE_WRAP

\* C7. Printing over a drawn bar: a write (or message) of non-empty bytes
\* while the bar is drawn emits the clear sequence of the drawn bar and then
\* the message bytes, unmodified and with no escape codes added; in the
\* stream no message byte lies between a paint and the clear that erases it.
C7_ClearBeforeMessage ==
    /\ [] MessageNeverInsideBar(out)
    /\ [][ ( /\ Calls("write") /\ Len(last'.arg) > 0
             /\ Drawn(inner[1]) )
           => /\ last'.emitted =
                    up_n_lines_and_home(inner[1].state.cursor_y)
                    \o <<CLEAR_TO_END_OF_SCREEN, ENABLE_LINE_WRAP>>
                    \o last'.arg
              /\ out' = out \o last'.emitted
         ]_vars

\* A line was written while a two-line bar was drawn: the stream holds the
\* paint, the clear that moves up one line, and the message.
C7_Witness ==
    /\ inner # None
    /\ last.op = "write"
    /\ last.arg = <<"m", NL>>
    /\ NPaints(out) = 1
    /\ last.emitted = <<MoveUp(1), CLEAR_TO_END_OF_SCREEN, ENABLE_LINE_WRAP,
                        "m", NL>>

\* C8. Suspend: suspend while the bar is drawn emits exactly one clear
\* sequence; from then until resume is called the view stays suspended, and
\* no update emits any bytes or calls render, for any clock value.
C8_Suspend ==
    [][ /\ Calls("suspend") =>
            /\ inner'[1].suspended
            /\ Drawn(inner[1]) =>
                  /\ last'.emitted =
                        up_n_lines_and_home(inner[1].state.cursor_y)
                        \o <<CLEAR_TO_END_OF_SCREEN, ENABLE_LINE_WRAP>>
                  /\ out' = out \o last'.emitted
        /\ ( /\ inner # None /\ inner' # None
             /\ inner[1].suspended /\ ~Calls("resume") )
           => inner'[1].suspended
        /\ (Calls("update") /\ inner[1].suspended)
           => /\ out' = out
              /\ last'.emitted = <<>>
              /\ inner'[1].model.draw_count = inner[1].model.draw_count
      ]_vars

\* The bar was painted and cleared by suspend; an update that changes what
\* the model renders was then made and nothing was emitted.
C8_Witness ==
    /\ inner # None
    /\ last.op = "update"
    /\ last.emitted = <<>>
    /\ inner[1].suspended
    /\ drawn_at_suspend
    /\ NPaints(out) = 1 /\ NClears(out) = 1
    /\ inner[1].model.update_count = 2
    /\ inner[1].model.draw_count = 1
    /\ inner[1].options.update_interval = 0

C10_Abandon ==
    [][ Consumes("abandon") =>
          /\ last'.emitted = IF Drawn(inner[1]) THEN <<NL>> ELSE <<>>
          /\ out' = out \o last'.emitted
          /\ returned' = Some(inner[1].model)
      ]_vars

\* A drawn bar was abandoned: the stream is its paint and a line terminator.
C10_Witness ==
    /\ inner = None
    /\ last.op = "abandon"
    /\ last.emitted = <<NL>>
    /\ returned # None /\ returned[1].update_count = 1
    /\ NPaints(out) = 1 /\ NClears(out) = 0
    /\ out[Len(out)] = NL

\* The bytes finish emits for a final message: the message and one line
\* terminator, or nothing when the message is empty.
FinalLine(final_message) ==
    IF Len(final_message) > 0 THEN final_message \o <<NL>> ELSE <<>>

\* Every paint in s is followed at once by the cursor movement for the lines
\* of its text (up N lines for a text with N line terminators) and then by
\* another paint or by clear-to-end-of-screen and enable-line-wrap.
EveryPaintErased(s) ==
    \A i \in 1..Len(s) :
       s[i] = DISABLE_LINE_WRAP =>
          LET text == PaintText(s, i)
              e == i + 2 + Len(text)
          IN /\ e + 1 <= Len(s)
             /\ <<s[e]>> = up_n_lines_and_home(CountNewlines(text))
             /\ \/ s[e + 1] = DISABLE_LINE_WRAP
                \/ /\ e + 2 <= Len(s)
                   /\ s[e + 1] = CLEAR_TO_END_OF_SCREEN
                   /\ s[e + 2] = ENABLE_LINE_WRAP

\* C11. Erasure on teardown: finish, or the drop of a View not yet consumed,
\* while the bar is drawn with cursor offset c emits exactly the clear
\* sequence: move up c lines and home, clear to end of screen, enable line
\* wrap (after which comes only the final message line, if the model has
\* one); so in the stream of a finished or dropped View every paint is
\* followed, before any message byte and before the end of the stream, by a
\* repaint or by a clear that moves up as many lines as the paint's text has
\* line terminators.
C11_TeardownErases ==
    /\ [] ( (inner = None /\ last.op \in {"finish", "drop"})
            => EveryPaintErased(out) )
    /\ [][ ( /\ Consumes("finish") \/ Consumes("drop")
             /\ Drawn(inner[1]) )
           => /\ last'.emitted =
                    up_n_lines_and_home(inner[1].state.cursor_y)
                    \o <<CLEAR_TO_END_OF_SCREEN, ENABLE_LINE_WRAP>>
                    \o FinalLine(last'.arg)
              /\ out' = out \o last'.emitted
         ]_vars

\* A View showing a two-line bar was dropped: the stream ends with the clear
\* that moves up one line.
C11_Witness ==
    /\ inner = None
    /\ last.op = "drop"
    /\ last.emitted = <<MoveUp(1), CLEAR_TO_END_OF_SCREEN, ENABLE_LINE_WRAP>>
    /\ NPaints(out) = 2 /\ NClears(out) = 1
    /\ out[Len(out) - 3] = NL

\* C12. Final message: finish, called or run by the drop of a View not yet
\* consumed, emits the clear sequence if the bar is drawn and nothing for it
\* otherwise, and then, if the model's final message is not empty, the
\* message and one line terminator, whether or not progress is enabled and
\* whether or not the view is suspended; with an empty final message nothing
\* follows the clear.
C12_FinalMessage ==
    [][ (Consumes("finish") \/ Consumes("drop"))
        => /\ last'.emitted =
                 (IF Drawn(inner[1])
                  THEN up_n_lines_and_home(inner[1].state.cursor_y)
                       \o <<CLEAR_TO_END_OF_SCREEN, ENABLE_LINE_WRAP>>
                  ELSE <<>>)
                 \o (IF Len(last'.arg) > 0 THEN last'.arg \o <<NL>> ELSE <<>>)
           /\ out' = out \o last'.emitted
      ]_vars

\* A suspended View whose bar had been drawn was dropped: the stream is the
\* paint, the clear made by suspend, and the final message line.
C12_Witness ==
    /\ inner = None
    /\ last.op = "drop"
    /\ last.arg = <<"f">>
    /\ last.emitted = <<"f", NL>>
    /\ drawn_at_suspend
    /\ NPaints(out) = 1 /\ NClears(out) = 1
    /\ SubSeq(out, Len(out) - 2, Len(out)) = <<ENABLE_LINE_WRAP, "f", NL>>

\* Number of final messages in a piece of the stream.
NFinals(s) == Cardinality({i \in 1..Len(s) : s[i] = "f"})

\* C13. Exactly-once consumption: the inner state goes from present to
\* absent only in finish, abandon or drop, and once absent it stays absent
\* and the stream does not grow; the drop of the emptied View at the end of
\* finish and of abandon adds no bytes to what InnerView::finish and
\* InnerView::abandon emitted, so a teardown holds at most one clear and at
\* most one final message, and an abandon holds neither.
C13_ConsumedOnce ==
    [][ /\ inner = None => (inner' = None /\ out' = out)
        /\ (inner # None /\ inner' = None)
           => /\ last'.op \in {"finish", "abandon", "drop"}
              /\ NClears(last'.emitted) <= 1
              /\ NFinals(last'.emitted) <= 1
        /\ Consumes("finish")
           => out' = finish(Ctx, last'.arg).c.out
        /\ Consumes("abandon")
           => /\ out' = abandon(Ctx).c.out
              /\ NClears(last'.emitted) = 0
              /\ NFinals(last'.emitted) = 0
      ]_vars

\* A View with a drawn bar was finished with a final message: the teardown
\* emitted one clear and one final message line, and the View is gone.
C13_Witness ==
    /\ inner = None /\ dropped
    /\ last.op = "finish"
    /\ last.emitted = <<MOVE_TO_START_OF_LINE, CLEAR_TO_END_OF_SCREEN,
                        ENABLE_LINE_WRAP, "f", NL>>
    /\ NFinals(out) = 1
    /\ NPaints(out) = 1 /\ NClears(out) = 1

\* C14. Progress disabled: while progress_enabled is false (as an option, or
\* because the destination cannot show a bar) it stays false, the bar is
\* never drawn and render is never called; update, hide, suspend and resume
\* emit nothing; a write emits its bytes and nothing else; finish and drop
\* emit the final message line only, abandon nothing. So the stream is the
\* concatenation of the written messages in call order, followed by the
\* final message line if there is one.
C14_ProgressDisabled ==
    /\ [] ( (inner # None /\ ~inner[1].options.progress_enabled)
            => /\ ~Drawn(inner[1])
               /\ inner[1].model.draw_count = 0
               /\ \A i \in 1..Len(out) : out[i] \in {"m", NL} )
    /\ [][ (inner # None /\ ~inner[1].options.progress_enabled)
           => /\ inner' # None => ~inner'[1].options.progress_enabled
              /\ Calls("write") => out' = out \o last'.arg
              /\ ( \/ Calls("update") \/ Calls("hide")
                   \/ Calls("suspend") \/ Calls("resume") )
                 => out' = out
              /\ (Consumes("finish") \/ Consumes("drop"))
                 => out' = out \o FinalLine(last'.arg)
              /\ Consumes("abandon") => out' = out
         ]_vars

\* With progress disabled, an update, a printed line and a second update
\* with no holdoff and a width available: the stream is the printed line.
C14_Witness ==
    /\ inner # None
    /\ ~inner[1].options.progress_enabled
    /\ last.op = "update" /\ last.width # None
    /\ inner[1].options.print_holdoff = 0
    /\ inner[1].options.update_interval = 0
    /\ inner[1].model.update_count = 2
    /\ inner[1].model.draw_count = 0
    /\ out = <<"m", NL>>

\* The text of the last paint in the stream.
LastPaintText(s) ==
    LET starts == {i \in 1..Len(s) : s[i] = DISABLE_LINE_WRAP}
        i == CHOOSE i \in starts : \A j \in starts : j <= i
    IN PaintText(s, i)

\* C15. Multi-line cursor tracking: while the bar is drawn, the text of the
\* last paint in the stream is the text recorded as drawn; if it has N line
\* terminators, the bytes emitted next by anything but abandon (a repaint, or
\* the clear of hide, suspend, write, finish or drop) start with the cursor
\* movement for N lines: ESC[NF (up N lines, to column 1) for N > 0 and
\* ESC[1G (column 1 of the same line) for N = 0; a paint or a clear follows.
C15_CursorTracking ==
    /\ [] ( (inner # None /\ Drawn(inner[1]))
            => /\ NPaints(out) > 0
               /\ inner[1].state.last_drawn_string = LastPaintText(out) )
    /\ [][ ( /\ inner # None /\ Drawn(inner[1])
             /\ out' # out
             /\ last'.op # "abandon" )
           => LET text == LastPaintText(out)
                  N == Cardinality({i \in 1..Len(text) : text[i] = NL})
              IN /\ out' = out \o last'.emitted
                 /\ Len(last'.emitted) >= 2
                 /\ last'.emitted[1] =
                       IF N > 0 THEN MoveUp(N) ELSE MOVE_TO_START_OF_LINE
                 /\ last'.emitted[2] \in
                       {DISABLE_LINE_WRAP, CLEAR_TO_END_OF_SCREEN}
         ]_vars

\* A bar of MaxLines + 1 lines was painted and then repainted as one line:
\* the repaint moved up MaxLines lines.
C15_Witness ==
    /\ inner # None
    /\ last.op = "update"
    /\ NPaints(out) = 2 /\ NClears(out) = 0
    /\ last.emitted = <<MoveUp(MaxLines), DISABLE_LINE_WRAP,
                        CLEAR_TO_END_OF_SCREEN, "b">>
    /\ Drawn(inner[1]) /\ inner[1].state.cursor_y = 0

\* Exactly three calls were made on the View: updates setting the count to
\* 0, 1 and 2.
ThreeUpdates ==
    /\ inner # None
    /\ nops = 3
    /\ inner[1].model.seen = <<0, 1, 2>>

RECURSIVE UpdatesBy(_)
UpdatesBy(S) ==
    IF S = {} THEN 0
    ELSE LET t == CHOOSE t \in S : TRUE
         IN threads[t].n_updates + UpdatesBy(S \ {t})

\* The calls in the history whose callback has stored its result.
Applied == {i \in 1..Len(hist) : hist[i].applied}

\* C18. No lost updates: while a callback runs (between its read of the
\* model and its store) the model is the one it read and no other thread is
\* inside a callback; the model holds the result of the callbacks applied
\* one after another in the order the calls took the lock, which for the
\* increment callback is the number of callbacks run by all the threads, so
\* k threads that each ran n callbacks leave the counter at k * n.
C18_NoLostUpdates ==
    inner # None =>
       /\ \A t \in Threads :
             threads[t].pc = "read" =>
                /\ threads[t].seen = Some(inner[1].model)
                /\ \A u \in Threads \ {t} : threads[u].pc # "read"
       /\ inner[1].model.update_count = Cardinality(Applied)
       /\ inner[1].model.text = CountText(Cardinality(Applied))
       /\ inner[1].model.update_count = UpdatesBy(Threads)
       /\ \A n \in 0..MaxOps :
             (\A t \in Threads : threads[t].n_updates = n)
             => inner[1].model.update_count = NThreads * n

\* Every thread has run one callback, the calls of different threads
\* following each other, and the counter is the number of threads.
C18_Witness ==
    /\ inner # None
    /\ \A t \in Threads : threads[t].n_updates = 1 /\ threads[t].pc = "idle"
    /\ \A i \in 1..Len(hist) : hist[i].op = "update"
    /\ Len(hist) = NThreads
    /\ inner[1].model.update_count = NThreads

\* C19. No duplicate paints: no call paints more than once, and two paints
\* made by update calls, of any threads, with only update calls between
\* them are at least update_interval apart on the clock; so while the clock
\* stays inside the first update_interval window, any number of updates by
\* any number of threads leave at most one paint in the stream.
C19_NoDuplicatePaints ==
    inner # None =>
       /\ \A i \in 1..Len(hist) : NPaints(hist[i].bytes) <= 1
       /\ \A i, j \in 1..Len(hist) :
             ( /\ i < j
               /\ NPaints(hist[i].bytes) > 0 /\ NPaints(hist[j].bytes) > 0
               /\ \A k \in i..j : hist[k].op = "update" )
             => hist[j].time - hist[i].time >= inner[1].options.update_interval
       /\ ( /\ real_clock < inner[1].options.update_interval
            /\ \A k \in 1..Len(hist) : hist[k].op = "update" )
          => NPaints(out) <= 1

\* Two threads each made an update inside one window: the first was
\* painted, the second changed what the model renders and was not.
C19_Witness ==
    /\ inner # None
    /\ inner[1].options.update_interval > 0
    /\ real_clock = 0
    /\ Len(hist) = 2
    /\ hist[1].op = "update" /\ hist[2].op = "update"
    /\ hist[1].thread # hist[2].thread
    /\ \A t \in Threads : threads[t].pc = "idle"
    /\ NPaints(hist[1].bytes) = 1 /\ hist[2].bytes = <<>>
    /\ NPaints(out) = 1
    /\ inner[1].model.draw_count = 1
    /\ inner[1].model.text # inner[1].state.last_drawn_string

\* The pieces of the stream written by the calls of the history, one call
\* after the other.
RECURSIVE Groups(_)
Groups(h) ==
    IF h = <<>> THEN <<>>
    ELSE Groups(SubSeq(h, 1, Len(h) - 1)) \o h[Len(h)].bytes

\* C20. Output atomicity: the stream is the bytes of the first call that
\* took the lock, then the bytes of the second, and so on, with no byte of
\* one call inside the bytes of another; and the bytes of a call that is
\* over are nothing, or one paint, or the message, or the clear of the
\* drawn bar followed by the message.
C20_OutputAtomic ==
    inner # None =>
       /\ out = Groups(hist)
       /\ \A i \in 1..Len(hist) :
             (\A t \in Threads : threads[t].group # i) =>
                LET e == hist[i].bytes
                IN IF hist[i].op = "update"
                   THEN \/ e = <<>>
                        \/ /\ NPaints(e) = 1 /\ NClears(e) = 0
                           /\ e[Len(e)] \notin
                                 {DISABLE_LINE_WRAP, CLEAR_TO_END_OF_SCREEN,
                                  MOVE_TO_START_OF_LINE}
                           /\ e[Len(e) - 1] = CLEAR_TO_END_OF_SCREEN
                           /\ e[Len(e) - 2] = DISABLE_LINE_WRAP
                   ELSE \/ e = <<"m", NL>>
                        \/ e = <<MOVE_TO_START_OF_LINE,
                                 CLEAR_TO_END_OF_SCREEN, ENABLE_LINE_WRAP,
                                 "m", NL>>

\* One thread painted the bar, another then printed a message over it, and
\* the first painted again: three groups of bytes, one after the other.
C20_Witness ==
    /\ inner # None
    /\ Len(hist) = 3
    /\ \A t \in Threads : threads[t].pc = "idle"
    /\ hist[1].op = "update" /\ hist[2].op = "write" /\ hist[3].op = "update"
    /\ hist[1].thread # hist[2].thread
    /\ NPaints(hist[1].bytes) = 1 /\ NPaints(hist[3].bytes) = 1
    /\ hist[2].bytes = <<MOVE_TO_START_OF_LINE, CLEAR_TO_END_OF_SCREEN,
                         ENABLE_LINE_WRAP, "m", NL>>
    /\ Len(out) = 11

C22_HideThenRepaint ==
    [][ /\ (Calls("hide") /\ Drawn(inner[1]))
           => /\ last'.emitted =
                    up_n_lines_and_home(inner[1].state.cursor_y)
                    \o <<CLEAR_TO_END_OF_SCREEN, ENABLE_LINE_WRAP>>
              /\ out' = out \o last'.emitted
              /\ inner'[1].state = StateNone
              /\ inner'[1].suspended = inner[1].suspended
        /\ ( /\ Calls("update")
             /\ inner[1].state = StateNone
             /\ inner[1].options.progress_enabled
             /\ ~inner[1].suspended
             /\ last'.width # None )
           => /\ OnePaint(last'.emitted, Rendered(inner'[1].model))
              /\ last'.emitted[1] = DISABLE_LINE_WRAP
              /\ out' = out \o last'.emitted
              /\ Drawn(inner'[1])
      ]_vars

\* The bar was painted, hidden and painted again by the next update, with
\* the same text and inside one positive update_interval.
C22_Witness ==
    /\ inner # None
    /\ last.op = "update"
    /\ inner[1].options.update_interval > 0
    /\ Now(inner[1]) = 0 /\ real_clock = 0
    /\ out = <<DISABLE_LINE_WRAP, CLEAR_TO_END_OF_SCREEN, "a",
               MOVE_TO_START_OF_LINE, CLEAR_TO_END_OF_SCREEN,
               ENABLE_LINE_WRAP,
               DISABLE_LINE_WRAP, CLEAR_TO_END_OF_SCREEN, "a">>
    /\ ~drawn_at_suspend /\ ~inner[1].suspended

\* C23. Unavailable destination: a View made on a destination that cannot
\* show progress has progress_enabled false from the start and for its
\* whole life, whatever the option asked for; no call paints or calls
\* render; no call fails (only set_fake_clock without the fake clock option
\* panics, in every View); and a write emits its bytes and nothing else.
C23_UnavailableDestination ==
    /\ [] ( /\ inner # None
               => /\ ~inner[1].options.progress_enabled
                  /\ inner[1].model.draw_count = 0
                  /\ ~Drawn(inner[1])
            /\ NPaints(out) = 0 /\ NClears(out) = 0
            /\ panicked
               => /\ last.op = "set_fake_clock"
                  /\ inner # None /\ ~inner[1].options.fake_clock )
    /\ [][ (Calls("write") => out' = out \o last'.arg)
           /\ (Calls("update") => out' = out)
           /\ (Calls("resume") => out' = out)
         ]_vars

\* On an unavailable destination: an update, a printed line and a second
\* update with no holdoff and a width available; the stream is the line.
C23_Witness ==
    /\ inner # None
    /\ last.op = "update" /\ last.width # None
    /\ inner[1].options.print_holdoff = 0
    /\ inner[1].options.update_interval = 0
    /\ inner[1].model.update_count = 2
    /\ inner[1].model.draw_count = 0
    /\ ~inner[1].suspended
    /\ out = <<"m", NL>>

\* C24. Invariant of the drawn state: in ProgressDrawn, cursor_y is the
\* number of line terminators in last_drawn_string; and whenever a call
\* makes the state ProgressDrawn or changes it, last_drawn_string is what
\* the model renders after the call with one trailing line terminator
\* removed if there is one, and only one.
C24_DrawnStateInvariant ==
    /\ [] ( (inner # None /\ Drawn(inner[1]))
            => LET s == inner[1].state.last_drawn_string
               IN inner[1].state.cursor_y =
                     Cardinality({i \in 1..Len(s) : s[i] = NL}) )
    /\ [][ ( /\ inner # None /\ inner' # None
             /\ Drawn(inner'[1])
             /\ inner'[1].state # inner[1].state )
           => LET r == inner'[1].model.text
                  n == Len(r)
              IN inner'[1].state.last_drawn_string =
                    IF n > 0 /\ r[n] = NL THEN SubSeq(r, 1, n - 1) ELSE r
         ]_vars

\* A render ending in two line terminators was painted: one is removed, one
\* is drawn, and the cursor is one line below the start of the bar.
C24_Witness ==
    /\ inner # None
    /\ Drawn(inner[1])
    /\ inner[1].model.text = <<"b", NL, NL>>
    /\ inner[1].state.last_drawn_string = <<"b", NL>>
    /\ inner[1].state.cursor_y = 1

\* An update or resume in this step gets as far as the width query: progress
\* is enabled, the view is not suspended once the call has begun, no line is
\* incomplete, and the time since the last print or paint is at least the
\* holdoff or the interval.
ReachesWidthQuery ==
    /\ Calls("update") \/ Calls("resume")
    /\ inner[1].options.progress_enabled
    /\ ~inner'[1].suspended
    /\ inner[1].state.tag # "IncompleteLine"
    /\ inner[1].state.tag = "Printed"
       => Elapsed(Now(inner[1]), inner[1].state.last_printed)
             >= inner[1].options.print_holdoff
    /\ inner[1].state.tag = "ProgressDrawn"
       => Elapsed(Now(inner[1]), inner[1].state.last_drawn_time)
             >= inner[1].options.update_interval

\* C25. Width unavailable: when a paint attempt gets as far as the width
\* query and the query returns no value, render is not called, no bytes are
\* emitted and the display state is unchanged; the query is made anew in
\* every attempt that gets that far, so an attempt in which it returns a
\* value calls render, whatever it returned before.
C25_WidthUnavailable ==
    [][ ReachesWidthQuery
        => IF last'.width = None
           THEN /\ out' = out
                /\ last'.emitted = <<>>
                /\ inner'[1].model.draw_count = inner[1].model.draw_count
                /\ inner'[1].state = inner[1].state
           ELSE inner'[1].model.draw_count = inner[1].model.draw_count + 1
      ]_vars

\* On a terminal, a first update found no width and painted nothing; the
\* second found one and painted.
C25_Witness ==
    /\ inner # None
    /\ inner[1].options.destination = "Stdout"
    /\ inner[1].options.progress_enabled
    /\ nops = 2
    /\ last.op = "update" /\ last.width # None
    /\ inner[1].model.update_count = 2
    /\ inner[1].model.draw_count = 1
    /\ out = last.emitted
    /\ OnePaint(out, Rendered(inner[1].model))

\* This step is a call of set_fake_clock.
SetsFakeClock ==
    /\ inner # None /\ ~panicked
    /\ last'.op = "set_fake_clock"
    /\ nops' = nops /\ real_clock' = real_clock

\* C26. set_fake_clock panics, changing nothing, when the fake_clock option
\* is off; when it is on it stores the value given and emits nothing. With
\* the option on, the time stored by a paint or by the print of a line is
\* the fake clock, and an update or resume that is allowed to paint
\* (progress enabled, not suspended, width available) calls render exactly
\* when the state is None, or Printed with fake clock - last_printed >=
\* print_holdoff, or ProgressDrawn with fake clock - last_drawn_time >=
\* update_interval: the system clock does not enter.
C26_FakeClock ==
    [][ /\ SetsFakeClock
           => IF inner[1].options.fake_clock
              THEN /\ ~panicked'
                   /\ inner' = Some([inner[1] EXCEPT
                                        !.fake_clock = last'.arg[1]])
                   /\ out' = out
              ELSE /\ panicked'
                   /\ inner' = inner /\ out' = out
        /\ (inner # None /\ inner[1].options.fake_clock)
           => LET v == inner[1]
                  fake == v.fake_clock
              IN /\ ( /\ Calls("update") \/ Calls("resume")
                      /\ Drawn(inner'[1])
                      /\ inner'[1].state # v.state )
                    => inner'[1].state.last_drawn_time = fake
                 /\ ( /\ Calls("write") /\ Len(last'.arg) > 0
                      /\ last'.arg[Len(last'.arg)] = NL )
                    => inner'[1].state = Printed(fake)
                 /\ ( /\ Calls("update") \/ Calls("resume")
                      /\ v.options.progress_enabled
                      /\ ~inner'[1].suspended
                      /\ last'.width # None )
                    => ( inner'[1].model.draw_count = v.model.draw_count + 1
                         <=> \/ v.state.tag = "None"
                             \/ /\ v.state.tag = "Printed"
                                /\ Elapsed(fake, v.state.last_printed)
                                      >= v.options.print_holdoff
                             \/ /\ v.state.tag = "ProgressDrawn"
                                /\ Elapsed(fake, v.state.last_drawn_time)
                                      >= v.options.update_interval )
                 /\ (Calls("update") \/ Calls("resume"))
                    => inner'[1].model.draw_count
                          \in {v.model.draw_count, v.model.draw_count + 1}
      ]_vars

\* With the system clock standing still, the bar was painted, the fake
\* clock was moved past a positive update_interval, and the next update
\* repainted the bar at the fake time.
C26_Witness ==
    /\ inner # None
    /\ inner[1].options.fake_clock
    /\ real_clock = 0
    /\ inner[1].options.update_interval > 0
    /\ last.op = "update"
    /\ NPaints(out) = 2 /\ NClears(out) = 0
    /\ Drawn(inner[1])
    /\ inner[1].state.last_drawn_time = inner[1].options.update_interval
    /\ inner[1].fake_clock = inner[1].options.update_interval

\* C27, as stated. After suspend in any display state other than
\* IncompleteLine the display state is None.
C27_SuspendState_Original ==
    [][ (Calls("suspend") /\ inner[1].state.tag # "IncompleteLine")
        => inner'[1].state = StateNone
      ]_vars

\* C27, amended. After suspend with the bar drawn or in state None the
\* display state is None; in state Printed it stays Printed with the same
\* last_printed, and in IncompleteLine it stays IncompleteLine; and while
\* the view is suspended no call but resume emits a paint.
C27_SuspendState ==
    [][ /\ Calls("suspend")
           => /\ inner'[1].suspended
              /\ inner'[1].state =
                    IF inner[1].state.tag \in {"ProgressDrawn", "None"}
                    THEN StateNone ELSE inner[1].state
        /\ (inner # None /\ inner[1].suspended /\ ~Calls("resume"))
           => /\ NPaints(out') = NPaints(out)
              /\ inner' # None => ~Drawn(inner'[1])
      ]_vars

\* A line was printed and the view suspended: an update then painted
\* nothing, though there is no holdoff, and the state is still Printed.
C27_Witness ==
    /\ inner # None
    /\ last.op = "update" /\ last.width # None
    /\ inner[1].suspended
    /\ inner[1].options.progress_enabled
    /\ inner[1].options.print_holdoff = 0
    /\ inner[1].state.tag = "Printed"
    /\ out = <<"m", NL>>
    /\ nops = 3

\* C28. hide in a state other than ProgressDrawn changes nothing and emits
\* nothing, and suspend in such a state only sets the suspended flag: the
\* Printed state with its last_printed time and the IncompleteLine state
\* are kept across hide and across suspend.
C28_HideNoOp ==
    [][ /\ (Calls("hide") /\ ~Drawn(inner[1]))
           => /\ inner' = inner
              /\ out' = out /\ last'.emitted = <<>>
        /\ (Calls("suspend") /\ ~Drawn(inner[1]))
           => /\ inner' = Some([inner[1] EXCEPT !.suspended = TRUE])
              /\ out' = out /\ last'.emitted = <<>>
      ]_vars

\* A line was printed under a positive holdoff and hide was called: the
\* state is still Printed and the stream is the line.
C28_Witness ==
    /\ inner # None
    /\ last.op = "hide"
    /\ nops = 2
    /\ inner[1].options.print_holdoff > 0
    /\ inner[1].state.tag = "Printed"
    /\ out = <<"m", NL>>

\* C29. Empty write: a write of zero bytes returns 0, emits nothing and
\* leaves the whole inner state as it was: a drawn bar stays drawn, and an
\* incomplete line or a print holdoff stays pending.
C29_EmptyWrite ==
    [][ (Calls("write") /\ Len(last'.arg) = 0)
        => /\ last'.ret = Some(0)
           /\ inner' = inner
           /\ out' = out /\ last'.emitted = <<>>
      ]_vars

\* An empty write was made over a drawn bar: the bar is still drawn and the
\* stream holds its paint and no clear.
C29_Witness ==
    /\ inner # None
    /\ last.op = "write" /\ last.arg = <<>>
    /\ last.ret = Some(0)
    /\ Drawn(inner[1])
    /\ NPaints(out) = 1 /\ NClears(out) = 0

\* C30. A write of n > 0 bytes returns n and sets the display state from
\* its last byte: Printed with the current clock value if it is a line
\* terminator, IncompleteLine otherwise, in every prior state, suspended or
\* not, progress enabled or not; the suspended flag, the model and the
\* options are not changed.
C30_WriteSetsState ==
    [][ (Calls("write") /\ Len(last'.arg) > 0)
        => /\ last'.ret = Some(Len(last'.arg))
           /\ inner'[1].state =
                 IF last'.arg[Len(last'.arg)] = NL
                 THEN [tag |-> "Printed", last_printed |-> Now(inner[1])]
                 ELSE [tag |-> "IncompleteLine"]
           /\ inner'[1].suspended = inner[1].suspended
           /\ inner'[1].model = inner[1].model
           /\ inner'[1].options = inner[1].options
      ]_vars

\* A partial line was written to a suspended view whose bar had been drawn:
\* the state is IncompleteLine and the view is still suspended.
C30_Witness ==
    /\ inner # None
    /\ last.op = "write" /\ last.arg = <<"m">>
    /\ last.ret = Some(1)
    /\ inner[1].suspended
    /\ NPaints(out) = 1 /\ NClears(out) = 1
    /\ inner[1].state = IncompleteLine
    /\ out[Len(out)] = "m"

\* C31. Trailing terminator stripping: the text an update compares and
\* paints is the render result without exactly one trailing line
\* terminator, if it has one, and never more. A paint emits that text
\* after clear-to-end-of-screen, records it as drawn, and counts its line
\* terminators as cursor_y, so a render ending in two line terminators is
\* painted with one kept and counts one more line than the same text ending
\* in one; and a drawn bar is repainted exactly when that text differs from
\* the text drawn.
C31_StripOneTerminator ==
    [][ (Calls("update") /\ ~inner[1].suspended
         /\ inner[1].state.tag \in {"ProgressDrawn", "None"})
        => LET T == last'.arg
               n == Len(T)
               S == IF n > 0 /\ T[n] = NL THEN SubSeq(T, 1, n - 1) ELSE T
               e == last'.emitted
           IN IF Drawn(inner[1]) /\ inner[1].state.last_drawn_string = S
              THEN e = <<>> /\ inner'[1].state = inner[1].state
              ELSE /\ NPaints(e) = 1
                   /\ SubSeq(e, Len(e) - Len(S) + 1, Len(e)) = S
                   /\ e[Len(e) - Len(S)] = CLEAR_TO_END_OF_SCREEN
                   /\ Drawn(inner'[1])
                   /\ inner'[1].state.last_drawn_string = S
                   /\ inner'[1].state.cursor_y =
                         Cardinality({i \in 1..Len(S) : S[i] = NL})
      ]_vars

\* A render of "b" and one line terminator was painted as "b"; then a render
\* of "b" and two line terminators was painted over it with one of them
\* kept, and the bar now counts one line more.
C31_Witness ==
    /\ inner # None
    /\ last.op = "update" /\ last.arg = <<"b", NL, NL>>
    /\ out = <<DISABLE_LINE_WRAP, CLEAR_TO_END_OF_SCREEN, "b",
               MOVE_TO_START_OF_LINE, DISABLE_LINE_WRAP,
               CLEAR_TO_END_OF_SCREEN, "b", NL>>
    /\ Drawn(inner[1]) /\ inner[1].state.cursor_y = 1

C33_DeadlockFree ==
    /\ [] ( /\ \A t \in Threads :
                 lock = Some(t) => threads[t].pc \in {"locked", "done"}
            /\ (\E t \in Threads : threads[t].pc # "idle")
               => \E t \in Threads :
                     \/ threads[t].pc = "waiting" /\ lock = None
                     \/ threads[t].pc \in {"locked", "done"}
                        /\ lock = Some(t) )
    /\ \A t \in Threads :
          /\ (threads[t].pc = "waiting")
                ~> (threads[t].pc = "locked" /\ lock = Some(t))
          /\ (threads[t].pc = "locked")
                ~> (threads[t].pc = "idle" /\ lock # Some(t))

\* Two threads have each completed an update, and one of them made its call
\* while the lock was held: it waited, took the lock and released it.
C33_Witness ==
    /\ lock = None
    /\ \E t, u \in Threads :
          /\ t # u
          /\ threads[t].pc = "idle" /\ threads[t].n_updates = 1
          /\ threads[u].pc = "idle" /\ threads[u].n_updates = 1
          /\ threads[u].group = 1

\* What a terminal shows after a stream: its rows of cells and the cursor.
\* Text goes to the cursor's cell, a line terminator moves to the start of
\* the next row, ESC[1G to the start of the row, ESC[nF up n rows to the
\* start, and ESC[0J clears from the cursor to the end of the screen.
ScreenStep(scr, tok) ==
    LET row == scr.rows[scr.r]
    IN CASE tok = NL ->
              [rows |-> IF scr.r = Len(scr.rows)
                        THEN Append(scr.rows, <<>>) ELSE scr.rows,
               r |-> scr.r + 1, c |-> 1]
         [] tok = MOVE_TO_START_OF_LINE -> [scr EXCEPT !.c = 1]
         [] tok = CLEAR_TO_END_OF_SCREEN ->
              [scr EXCEPT !.rows =
                  [i \in 1..Len(scr.rows) |->
                      IF i < scr.r THEN scr.rows[i]
                      ELSE IF i = scr.r THEN SubSeq(row, 1, scr.c - 1)
                      ELSE <<>>]]
         [] tok \in {DISABLE_LINE_WRAP, ENABLE_LINE_WRAP} -> scr
         [] tok \in {MoveUp(n) : n \in 1..(MaxLines + 3)} ->
              LET n == CHOOSE n \in 1..(MaxLines + 3) : tok = MoveUp(n)
              IN [scr EXCEPT !.r = IF scr.r > n THEN scr.r - n ELSE 1,
                             !.c = 1]
         [] OTHER ->
              [scr EXCEPT !.rows[scr.r] =
                             IF scr.c <= Len(row)
                             THEN [row EXCEPT ![scr.c] = tok]
                             ELSE Append(row, tok),
                          !.c = scr.c + 1]

RECURSIVE Screen(_)
Screen(s) ==
    IF s = <<>> THEN [rows |-> << <<>> >>, r |-> 1, c |-> 1]
    ELSE ScreenStep(Screen(SubSeq(s, 1, Len(s) - 1)), s[Len(s)])

\* Number of cells of the screen that show tok.
NCells(scr, tok) ==
    Cardinality({ p \in (1..Len(scr.rows)) \X (1..Len(out)) :
                    /\ p[2] <= Len(scr.rows[p[1]])
                    /\ scr.rows[p[1]][p[2]] = tok })

WrapEnabled(s) ==
    LET W == {j \in 1..Len(s) : s[j] \in {DISABLE_LINE_WRAP, ENABLE_LINE_WRAP}}
    IN W # {} => s[CHOOSE j \in W : \A k \in W : k <= j] = ENABLE_LINE_WRAP

\* C35. Line wrap during printing: wherever a byte of a message or of the
\* final message stands in the stream, line wrap is enabled: the last line
\* wrap control before it, if there is one, is the enable-line-wrap of a
\* clear and not the disable-line-wrap of a paint.
C35_WrapEnabledWhenPrinting ==
    \A i \in 1..Len(out) :
       out[i] \in {"m", "f"} => WrapEnabled(SubSeq(out, 1, i - 1))

\* A bar was painted, a message printed over it, and the View finished with
\* a final message: the stream holds a paint, one clear, the message and
\* the final message.
C35_Witness ==
    /\ inner = None
    /\ last.op = "finish" /\ last.arg = <<"f">>
    /\ NPaints(out) = 1 /\ NClears(out) = 1
    /\ \E i \in 1..Len(out) : out[i] = "m"
    /\ out[Len(out) - 1] = "f"

\* C36, as stated. Terminal restored at teardown: once the View is consumed
\* by finish, abandon or drop, the last line wrap control in the stream, if
\* there is one, is enable-line-wrap.
C36_TerminalRestored ==
    (inner = None /\ last.op \in {"finish", "abandon", "drop"})
       => WrapEnabled(out)

\* C37. A suppressed repaint is a no-op on the display state: when an
\* update passes the gates with the bar drawn and the rendered text is
\* last_drawn_string, render has been called once, nothing is emitted, and
\* last_drawn_time, cursor_y and last_drawn_string are what they were. So
\* the interval stays elapsed: the same update made again calls render
\* again, until the text changes.
C37_SuppressedRepaintNoOp ==
    [][ ( /\ Calls("update")
          /\ Drawn(inner[1])
          /\ inner[1].options.progress_enabled /\ ~inner[1].suspended
          /\ last'.width # None
          /\ Elapsed(Now(inner[1]), inner[1].state.last_drawn_time)
                >= inner[1].options.update_interval
          /\ Rendered(inner'[1].model) = inner[1].state.last_drawn_string )
        => /\ last'.emitted = <<>>
           /\ inner'[1].model.draw_count = inner[1].model.draw_count + 1
           /\ Drawn(inner'[1])
           /\ inner'[1].state.last_drawn_time = inner[1].state.last_drawn_time
           /\ inner'[1].state.cursor_y = inner[1].state.cursor_y
           /\ inner'[1].state.last_drawn_string
                 = inner[1].state.last_drawn_string
           /\ Elapsed(Now(inner'[1]), inner'[1].state.last_drawn_time)
                 >= inner'[1].options.update_interval
      ]_vars

\* The bar was painted at time 0 under a positive update_interval, the
\* clock passed the interval, and two updates with the same text followed:
\* render was called by each of the three updates and the stream holds the
\* one paint, still dated 0.
C37_Witness ==
    /\ inner # None
    /\ last.op = "update" /\ last.emitted = <<>>
    /\ inner[1].options.update_interval > 0
    /\ Drawn(inner[1]) /\ inner[1].state.last_drawn_time = 0
    /\ Now(inner[1]) >= inner[1].options.update_interval
    /\ inner[1].model.update_count = 3
    /\ inner[1].model.draw_count = 3
    /\ NPaints(out) = 1

\* C38. Render is called only from a paint attempt that passed every gate:
\* a step calls render at most once, and when it does it is an update or a
\* resume with progress enabled, the view not suspended, no incomplete line
\* pending, the update_interval elapsed since the last paint or the
\* print_holdoff elapsed since the last print, and the width available.
\* write, hide, suspend, inspect_model and set_fake_clock never call it,
\* and the model that finish or abandon returns has the render count it had.
C38_RenderOnlyFromPaint ==
    [][ /\ (inner # None /\ inner' # None)
           => LET v == inner[1]
                  n == inner'[1].model.draw_count - v.model.draw_count
              IN /\ n \in {0, 1}
                 /\ n = 1
                    => /\ Calls("update") \/ Calls("resume")
                       /\ v.options.progress_enabled
                       /\ ~inner'[1].suspended
                       /\ Calls("update") => ~v.suspended
                       /\ v.state.tag # "IncompleteLine"
                       /\ v.state.tag = "Printed"
                          => Elapsed(Now(v), v.state.last_printed)
                                >= v.options.print_holdoff
                       /\ v.state.tag = "ProgressDrawn"
                          => Elapsed(Now(v), v.state.last_drawn_time)
                                >= v.options.update_interval
                       /\ last'.width # None
        /\ (inner # None /\ inner' = None /\ returned' # None)
           => returned'[1].draw_count = inner[1].model.draw_count
      ]_vars

\* An update painted the bar, a message was printed and the model was
\* inspected: render has been called once.
C38_Witness ==
    /\ inner # None
    /\ last.op = "inspect_model" /\ last.ret = Some(1)
    /\ nops = 3
    /\ NPaints(out) = 1 /\ NClears(out) = 1
    /\ inner[1].state.tag = "Printed"
    /\ inner[1].model.draw_count = 1
====
